---- MODULE Spec2Model ----
(***************************************************************************)
(* A model of the notes application of src/src/App.vue: the reactive state *)
(* of the component, the handlers of its script, the watcher that writes   *)
(* the collection through to localStorage, and the filtered view.          *)
(*                                                                         *)
(* Text is a sequence of characters; a character is a one-element token    *)
(* ("a", "A", " ", "*", ...).  A time is a number of milliseconds.         *)
(*                                                                         *)
(* Every function of the script is an entry point of the model: it may be  *)
(* invoked in every state of the mounted component in which its body can   *)
(* run.  The handlers that the template binds inline to an element (the    *)
(* v-model inputs) exist only while that element is rendered.              *)
(***************************************************************************)
EXTENDS Integers, Sequences, FiniteSets, TLC

(***************************************************************************)
(* Bounds of the exploration.                                              *)
(***************************************************************************)
\* the largest number of notes the collection is let to hold
MaxNotes == 2
\* the largest clock reading (milliseconds)
MaxClock == 2
\* the longest draft content a format command is let to produce
MaxContentLen == 2
\* the largest number of pending save-indicator timers
MaxTimers == 1
\* the same where the timers of several mutations overlap
MaxPending == 2

VARIABLES
    phase,              \* "setup" before onMounted has run, "mounted" after
    keydownListener,    \* TRUE when handleKeyboardShortcuts is registered
    storage,            \* the blob of localStorage under the key "notes"
    now,                \* the last reading of the clock
    notes,              \* notes.value: the collection, a sequence of notes
    currentNote,        \* currentNote.value: 0 for null, else the position
                        \* in notes of the note object it references
                        \* (-1: an object that is not in notes)
    searchQuery,        \* searchQuery.value
    showEditor,         \* showEditor.value
    editorTitle,        \* editorTitle.value
    editorContent,      \* editorContent.value
    showSaveIndicator,  \* showSaveIndicator.value
    viewMode,           \* viewMode.value
    isInitialLoad,      \* the watcher's flag
    timers,             \* the number of pending setTimeout callbacks
    alerted             \* TRUE when the last handler called alert()

vars == <<phase, keydownListener, storage, now, notes, currentNote,
          searchQuery, showEditor, editorTitle, editorContent,
          showSaveIndicator, viewMode, isInitialLoad, timers, alerted>>

(***************************************************************************)
(* Text.                                                                   *)
(***************************************************************************)
Whitespace == {" "}

\* String.prototype.toLowerCase, character by character
LowerChar(c) == IF c = "A" THEN "a" ELSE IF c = "B" THEN "b" ELSE c

toLowerCase(s) == [i \in DOMAIN s |-> LowerChar(s[i])]

\* String.prototype.substring(start, end) for 0 <= start <= end <= length
substring(s, start, end) == SubSeq(s, start + 1, end)

RECURSIVE trimStart(_)
trimStart(s) ==
    IF s # <<>> /\ Head(s) \in Whitespace THEN trimStart(Tail(s)) ELSE s

RECURSIVE trimEnd(_)
trimEnd(s) ==
    IF s # <<>> /\ s[Len(s)] \in Whitespace
    THEN trimEnd(SubSeq(s, 1, Len(s) - 1))
    ELSE s

\* String.prototype.trim
trim(s) == trimEnd(trimStart(s))

\* s starts with q at the 0-based position from
StartsAt(s, q, from) ==
    /\ from + Len(q) <= Len(s)
    /\ \A k \in 1..Len(q) : s[from + k] = q[k]

\* String.prototype.includes: scan the positions from left to right
RECURSIVE includesFrom(_, _, _)
includesFrom(s, q, from) ==
    IF from + Len(q) > Len(s) THEN FALSE
    ELSE IF StartsAt(s, q, from) THEN TRUE
    ELSE includesFrom(s, q, from + 1)

includes(s, q) == includesFrom(s, q, 0)

(***************************************************************************)
(* Times, notes and the stored blob.                                       *)
(***************************************************************************)
\* Date.prototype.toISOString of the date of t milliseconds: the text
\* "YYYY-MM-DDTHH:mm:ss.sssZ", which names t exactly
toISOString(t) == [iso |-> t]

Note(id, title, content, createdAt, updatedAt) ==
    [id |-> id, title |-> title, content |-> content,
     createdAt |-> createdAt, updatedAt |-> updatedAt]

\* JSON.stringify of one note: its members in the order of their creation
StringifyNote(n) ==
    <<<<"id", n.id>>, <<"title", n.title>>, <<"content", n.content>>,
      <<"createdAt", n.createdAt>>, <<"updatedAt", n.updatedAt>>>>

\* JSON.stringify of the collection
Stringify(ns) ==
    [kind |-> "array", items |-> [i \in DOMAIN ns |-> StringifyNote(ns[i])]]

\* mutant: the parse takes updatedAt from createdAt
ParseNoteLosingUpdate(item) ==
    Note(item[1][2], item[2][2], item[3][2], item[4][2], item[4][2])

ParseNote(item) ==
    Note(item[1][2], item[2][2], item[3][2], item[4][2], item[5][2])

\* JSON.parse of a blob of kind "array"
Parse(blob) == [i \in DOMAIN blob.items |-> ParseNote(blob.items[i])]

\* localStorage.getItem('notes') returns null
Absent == [kind |-> "absent", items |-> <<>>]
\* a text that JSON.parse rejects with a SyntaxError
Unparseable == [kind |-> "unparseable", items |-> <<>>]

\* what an earlier session of the application may have left in storage
StoredCollections ==
    { <<>>,
      <<Note(0, <<"B">>, <<>>, toISOString(0), toISOString(0))>> }

InitialStorage ==
    {Absent, Unparseable} \cup {Stringify(ns) : ns \in StoredCollections}

(***************************************************************************)
(* The state after setup, before the component is mounted.                 *)
(***************************************************************************)
Init ==
    /\ phase = "setup"
    /\ keydownListener = FALSE
    /\ storage \in InitialStorage
    /\ now = 1
    /\ notes = <<>>
    /\ currentNote = 0
    /\ searchQuery = <<>>
    /\ showEditor = FALSE
    /\ editorTitle = <<>>
    /\ editorContent = <<>>
    /\ showSaveIndicator = FALSE
    /\ viewMode = "grid"
    /\ isInitialLoad = TRUE
    /\ timers = 0
    /\ alerted = FALSE

(***************************************************************************)
(* The watcher of the collection (deep, flushed before the next event).    *)
(***************************************************************************)
\* the callback of watch(notes, ...), run with the collection newNotes
watchNotes(newNotes) ==
    /\ storage' = Stringify(newNotes)
    /\ IF ~isInitialLoad
       THEN /\ showSaveIndicator' = TRUE
            /\ timers' = timers + 1
       ELSE UNCHANGED <<showSaveIndicator, timers>>
    /\ isInitialLoad' = FALSE

\* the collection was not touched: the callback is not scheduled
notWatched == UNCHANGED <<storage, showSaveIndicator, timers, isInitialLoad>>

\* mutant: the callback leaves the indicator as it is
TimerFiresShowing ==
    /\ timers > 0
    /\ timers' = timers - 1
    /\ UNCHANGED <<phase, keydownListener, storage, now, notes, currentNote,
                   searchQuery, showEditor, editorTitle, editorContent,
                   showSaveIndicator, viewMode, isInitialLoad, alerted>>

\* the callback of setTimeout(..., 1500)
TimerFires ==
    /\ timers > 0
    /\ showSaveIndicator' = FALSE
    /\ timers' = timers - 1
    /\ UNCHANGED <<phase, keydownListener, storage, now, notes, currentNote,
                   searchQuery, showEditor, editorTitle, editorContent,
                   viewMode, isInitialLoad, alerted>>

(***************************************************************************)
(* onMounted.                                                              *)
(***************************************************************************)
Mount ==
    /\ phase = "setup"
    /\ phase' = "mounted"
    /\ CASE storage.kind = "absent" ->
              \* savedNotes is null: the collection stays as it is
              /\ notes' = notes
              /\ notWatched
              /\ keydownListener' = TRUE
         [] storage.kind = "array" ->
              /\ notes' = Parse(storage)
              /\ watchNotes(notes')
              /\ keydownListener' = TRUE
         [] storage.kind = "unparseable" ->
              \* JSON.parse throws: the rest of the hook does not run
              /\ notes' = notes
              /\ notWatched
              /\ keydownListener' = keydownListener
    /\ UNCHANGED <<now, currentNote, searchQuery, showEditor, editorTitle,
                   editorContent, viewMode, alerted>>

(***************************************************************************)
(* The filtered view.                                                      *)
(***************************************************************************)
\* mutant: the content is not searched
MatchesTitle(note, query) == includes(toLowerCase(note.title), query)

\* the predicate of the filter of filteredNotes
Matches(note, query) ==
    \/ includes(toLowerCase(note.title), query)
    \/ includes(toLowerCase(note.content), query)

\* Array.prototype.filter with the predicate "matches toLowerCase(q)"
FilterNotes(ns, q) ==
    SelectSeq(ns, LAMBDA note : Matches(note, toLowerCase(q)))

\* mutant: without the early return, and an empty query matching nothing
filteredNotesStrict ==
    SelectSeq(notes, LAMBDA note :
        searchQuery # <<>> /\ Matches(note, toLowerCase(searchQuery)))

filteredNotes ==
    IF searchQuery = <<>> THEN notes ELSE FilterNotes(notes, searchQuery)

notesCount == Len(notes)

(***************************************************************************)
(* The editor session.                                                     *)
(***************************************************************************)
\* mutant: the draft is not emptied
closeEditorKeepingDraft ==
    /\ showEditor' = FALSE
    /\ currentNote' = 0
    /\ UNCHANGED <<editorTitle, editorContent>>

closeEditor ==
    /\ showEditor' = FALSE
    /\ currentNote' = 0
    /\ editorTitle' = <<>>
    /\ editorContent' = <<>>

CloseEditor ==
    /\ phase = "mounted"
    /\ closeEditor
    /\ alerted' = FALSE
    /\ notWatched
    /\ UNCHANGED <<phase, keydownListener, now, notes, searchQuery, viewMode>>

\* mutant: the target is not reset
createNewNoteKeepingTarget ==
    /\ editorTitle' = <<>>
    /\ editorContent' = <<>>
    /\ currentNote' = currentNote
    /\ showEditor' = TRUE

createNewNote ==
    /\ editorTitle' = <<>>
    /\ editorContent' = <<>>
    /\ currentNote' = 0
    /\ showEditor' = TRUE

CreateNewNote ==
    /\ phase = "mounted"
    /\ createNewNote
    /\ alerted' = FALSE
    /\ notWatched
    /\ UNCHANGED <<phase, keydownListener, now, notes, searchQuery, viewMode>>

\* mutant: the draft of an open session is kept
EditNoteKeepingDraft(i) ==
    /\ phase = "mounted"
    /\ i \in DOMAIN notes
    /\ currentNote' = i
    /\ editorTitle' = IF showEditor THEN editorTitle ELSE notes[i].title
    /\ editorContent' = IF showEditor THEN editorContent ELSE notes[i].content
    /\ showEditor' = TRUE
    /\ alerted' = FALSE
    /\ notWatched
    /\ UNCHANGED <<phase, keydownListener, now, notes, searchQuery, viewMode>>

\* editNote(note), note being the object at position i of the collection
EditNote(i) ==
    /\ phase = "mounted"
    /\ i \in DOMAIN notes
    /\ currentNote' = i
    /\ editorTitle' = notes[i].title
    /\ editorContent' = notes[i].content
    /\ showEditor' = TRUE
    /\ alerted' = FALSE
    /\ notWatched
    /\ UNCHANGED <<phase, keydownListener, now, notes, searchQuery, viewMode>>

\* mutant: the input is bound to the title of the target note
UpdateDraftTitleOfNote(text) ==
    /\ phase = "mounted"
    /\ showEditor
    /\ editorTitle' = text
    /\ notes' = IF currentNote \in DOMAIN notes
                THEN [notes EXCEPT ![currentNote].title = text]
                ELSE notes
    /\ alerted' = FALSE
    /\ notWatched
    /\ UNCHANGED <<phase, keydownListener, now, currentNote,
                   searchQuery, showEditor, editorContent, viewMode>>

\* v-model of the title input of the editor
UpdateDraftTitle(text) ==
    /\ phase = "mounted"
    /\ showEditor
    /\ editorTitle' = text
    /\ alerted' = FALSE
    /\ notWatched
    /\ UNCHANGED <<phase, keydownListener, now, notes, currentNote,
                   searchQuery, showEditor, editorContent, viewMode>>

\* mutant: the textarea is bound to the content of the target note, which
\* the deep watcher sees
UpdateDraftContentOfNote(text) ==
    /\ phase = "mounted"
    /\ showEditor
    /\ editorContent' = text
    /\ notes' = IF currentNote \in DOMAIN notes
                THEN [notes EXCEPT ![currentNote].content = text]
                ELSE notes
    /\ alerted' = FALSE
    /\ IF notes' # notes THEN watchNotes(notes') ELSE notWatched
    /\ UNCHANGED <<phase, keydownListener, now, currentNote,
                   searchQuery, showEditor, editorTitle, viewMode>>

\* v-model of the textarea of the editor
UpdateDraftContent(text) ==
    /\ phase = "mounted"
    /\ showEditor
    /\ editorContent' = text
    /\ alerted' = FALSE
    /\ notWatched
    /\ UNCHANGED <<phase, keydownListener, now, notes, currentNote,
                   searchQuery, showEditor, editorTitle, viewMode>>

\* v-model of the search input and the button that clears it, both
\* rendered when the editor is hidden and the collection is not empty
SetSearchQuery(text) ==
    /\ phase = "mounted"
    /\ ~showEditor
    /\ notesCount > 0
    /\ searchQuery' = text
    /\ alerted' = FALSE
    /\ notWatched
    /\ UNCHANGED <<phase, keydownListener, now, notes, currentNote,
                   showEditor, editorTitle, editorContent, viewMode>>

ToggleViewMode ==
    /\ phase = "mounted"
    /\ viewMode' = IF viewMode = "grid" THEN "list" ELSE "grid"
    /\ alerted' = FALSE
    /\ notWatched
    /\ UNCHANGED <<phase, keydownListener, now, notes, currentNote,
                   searchQuery, showEditor, editorTitle, editorContent>>

(***************************************************************************)
(* saveNote.                                                               *)
(***************************************************************************)
\* mutant: the test on the title is missing
TitleNeverBlank(title) == FALSE

\* mutant: the test without trim()
TitleIsEmpty(title) == title = <<>>

\* !editorTitle.value.trim()
TitleIsBlank(title) == trim(title) = <<>>

\* mutant: the update branch also stamps createdAt
UpdateNoteStampingCreated(note, title, content, t) ==
    [note EXCEPT !.title = title, !.content = content,
                 !.createdAt = toISOString(t), !.updatedAt = toISOString(t)]

\* the assignments of the update branch to the note object
UpdateNote(note, title, content, t) ==
    [note EXCEPT !.title = title, !.content = content,
                 !.updatedAt = toISOString(t)]

\* the note literal of the create branch: three readings of the clock
NewNote(title, content, t1, t2, t3) ==
    Note(t1, title, content, toISOString(t2), toISOString(t3))

\* mutant: push in place of unshift
Push(ns, note) == ns \o <<note>>

\* Array.prototype.unshift
Unshift(ns, note) == <<note>> \o ns

\* mutant: a watcher that is not deep misses the changes made in place
ShallowChanged(oldNotes, newNotes) == FALSE

\* the deep watcher is scheduled when a set changed a value it tracks
DeepChanged(oldNotes, newNotes) == oldNotes # newNotes

SaveNote ==
    /\ phase = "mounted"
    /\ UNCHANGED <<phase, keydownListener, searchQuery, viewMode>>
    /\ IF TitleIsBlank(editorTitle)
       THEN /\ alerted' = TRUE
            /\ notWatched
            /\ UNCHANGED <<now, notes, currentNote, showEditor, editorTitle,
                           editorContent>>
       ELSE /\ alerted' = FALSE
            /\ IF currentNote # 0
               THEN \E t \in now..MaxClock :
                      /\ now' = t
                      /\ notes' = [notes EXCEPT ![currentNote] =
                             UpdateNote(@, editorTitle, editorContent, t)]
               ELSE /\ Len(notes) < MaxNotes
                    /\ \E t1 \in now..MaxClock :
                       \E t2 \in t1..MaxClock :
                       \E t3 \in t2..MaxClock :
                         /\ now' = t3
                         /\ notes' = Unshift(notes,
                               NewNote(editorTitle, editorContent, t1, t2, t3))
            /\ IF DeepChanged(notes, notes')
               THEN watchNotes(notes')
               ELSE notWatched
            /\ closeEditor

(***************************************************************************)
(* deleteNote.                                                             *)
(***************************************************************************)
\* mutant: the comparison of the filter inverted
KeepById(ns, noteId) == SelectSeq(ns, LAMBDA note : note.id = noteId)

\* notes.value.filter(note => note.id !== noteId)
RemoveById(ns, noteId) == SelectSeq(ns, LAMBDA note : note.id # noteId)

\* mutant: the session is closed whenever a note is open
CurrentIsSet(noteId) == currentNote # 0

\* mutant: the test on the target is missing
CurrentNeverHasId(noteId) == FALSE

\* currentNote.value?.id === noteId
CurrentHasId(noteId) == currentNote # 0 /\ notes[currentNote].id = noteId

\* the position in the filtered array of the object at position i, and -1
\* when the filter dropped it (the object is then in no array)
PositionAfterRemove(ns, noteId, i) ==
    IF ns[i].id = noteId THEN -1
    ELSE i - Cardinality({j \in 1..i : ns[j].id = noteId})

\* mutant: the answer of confirm() is not looked at
DeleteNoteUnasked(noteId, confirmed) ==
    /\ phase = "mounted"
    /\ alerted' = FALSE
    /\ UNCHANGED <<phase, keydownListener, now, searchQuery, viewMode>>
    /\ notes' = RemoveById(notes, noteId)
    /\ watchNotes(notes')
    /\ IF CurrentHasId(noteId)
       THEN closeEditor
       ELSE /\ currentNote' =
                  IF currentNote = 0 THEN 0
                  ELSE PositionAfterRemove(notes, noteId, currentNote)
            /\ UNCHANGED <<showEditor, editorTitle, editorContent>>

\* deleteNote(noteId); confirmed is the answer of confirm()
DeleteNote(noteId, confirmed) ==
    /\ phase = "mounted"
    /\ alerted' = FALSE
    /\ UNCHANGED <<phase, keydownListener, now, searchQuery, viewMode>>
    /\ IF confirmed
       THEN /\ notes' = RemoveById(notes, noteId)
            \* notes.value is set to a new array: the watcher is scheduled
            /\ watchNotes(notes')
            /\ IF CurrentHasId(noteId)
               THEN closeEditor
               ELSE /\ currentNote' =
                          IF currentNote = 0 THEN 0
                          ELSE PositionAfterRemove(notes, noteId, currentNote)
                    /\ UNCHANGED <<showEditor, editorTitle, editorContent>>
       ELSE /\ notWatched
            /\ UNCHANGED <<notes, currentNote, showEditor, editorTitle,
                           editorContent>>

(***************************************************************************)
(* applyFormat.                                                            *)
(***************************************************************************)
Formats == {"bold", "italic", "heading", "bullet"}

\* the three characters before the blank in the bullet marker of the source
BulletMarker == <<"U+201A", "U+00C4", "U+00A2", " ">>

\* mutant: bold closes with a single star
FormattedTextShortBold(format, selectedText) ==
    CASE format = "bold" -> <<"*", "*">> \o selectedText \o <<"*">>
      [] format = "italic" -> <<"*">> \o selectedText \o <<"*">>
      [] format = "heading" -> <<"#", " ">> \o selectedText
      [] format = "bullet" -> BulletMarker \o selectedText
      [] OTHER -> <<>>

\* the switch over format
FormattedText(format, selectedText) ==
    CASE format = "bold" -> <<"*", "*">> \o selectedText \o <<"*", "*">>
      [] format = "italic" -> <<"*">> \o selectedText \o <<"*">>
      [] format = "heading" -> <<"#", " ">> \o selectedText
      [] format = "bullet" -> BulletMarker \o selectedText
      [] OTHER -> <<>>

\* the new value of editorContent
FormatContent(content, format, start, end) ==
    substring(content, 0, start)
        \o FormattedText(format, substring(content, start, end))
        \o substring(content, end, Len(content))

\* applyFormat(format) with the selection start..end of the textarea, which
\* exists while the editor is shown
ApplyFormat(format, start, end) ==
    /\ phase = "mounted"
    /\ showEditor
    /\ 0 <= start /\ start <= end /\ end <= Len(editorContent)
    /\ editorContent' = FormatContent(editorContent, format, start, end)
    /\ alerted' = FALSE
    /\ notWatched
    /\ UNCHANGED <<phase, keydownListener, now, notes, currentNote,
                   searchQuery, showEditor, editorTitle, viewMode>>

(***************************************************************************)
(* handleKeyboardShortcuts.                                                *)
(***************************************************************************)
KeyEvent(alt, ctrl, meta, key) ==
    [altKey |-> alt, ctrlKey |-> ctrl, metaKey |-> meta, key |-> key]

KeyEvents ==
    { KeyEvent(TRUE, FALSE, FALSE, "n"), KeyEvent(FALSE, FALSE, FALSE, "n"),
      KeyEvent(FALSE, TRUE, FALSE, "s"), KeyEvent(FALSE, FALSE, TRUE, "s"),
      KeyEvent(FALSE, FALSE, FALSE, "s"),
      KeyEvent(FALSE, FALSE, FALSE, "Escape") }

\* mutant: the tests do not look at showEditor
KeyDownUnguarded(e) ==
    /\ phase = "mounted"
    /\ keydownListener
    /\ IF e.altKey /\ e.key = "n"
       THEN CreateNewNote
       ELSE IF (e.ctrlKey \/ e.metaKey) /\ e.key = "s"
       THEN SaveNote
       ELSE IF e.key = "Escape"
       THEN CloseEditor
       ELSE /\ alerted' = FALSE
            /\ notWatched
            /\ UNCHANGED <<phase, keydownListener, now, notes, currentNote,
                           searchQuery, showEditor, editorTitle,
                           editorContent, viewMode>>

\* The three tests run one after the other; e.key has one value, so at most
\* one of them holds, whatever the first ones did to showEditor.
KeyDown(e) ==
    /\ phase = "mounted"
    /\ keydownListener
    /\ IF e.altKey /\ e.key = "n" /\ ~showEditor
       THEN CreateNewNote
       ELSE IF (e.ctrlKey \/ e.metaKey) /\ e.key = "s" /\ showEditor
       THEN SaveNote
       ELSE IF e.key = "Escape" /\ showEditor
       THEN CloseEditor
       ELSE /\ alerted' = FALSE
            /\ notWatched
            /\ UNCHANGED <<phase, keydownListener, now, notes, currentNote,
                           searchQuery, showEditor, editorTitle,
                           editorContent, viewMode>>

(***************************************************************************)
(* The specification.                                                      *)
(***************************************************************************)
\* the texts the user types in the title input
TitleInputs == { <<>>, <<" ">>, <<"a">> }
\* the texts the user types in the textarea
ContentInputs == { <<"a">> }
\* the texts the user types in the search input
QueryInputs == { <<>>, <<"A">> }
\* the ids deleteNote is called with
NoteIds == 0..MaxClock

Next ==
    \/ Mount
    \/ CreateNewNote
    \/ \E i \in 1..MaxNotes : EditNote(i)
    \/ \E text \in TitleInputs : UpdateDraftTitle(text)
    \/ \E text \in ContentInputs : UpdateDraftContent(text)
    \/ \E format \in Formats : \E start, end \in 0..MaxContentLen :
          ApplyFormat(format, start, end) /\ Len(editorContent') <= MaxContentLen
    \/ SaveNote /\ timers' <= MaxTimers
    \/ \E noteId \in NoteIds : \E confirmed \in BOOLEAN :
          DeleteNote(noteId, confirmed) /\ timers' <= MaxTimers
    \/ CloseEditor
    \/ \E text \in QueryInputs : SetSearchQuery(text)
    \/ ToggleViewMode
    \/ \E e \in KeyEvents : KeyDown(e) /\ timers' <= MaxTimers
    \/ TimerFires

Spec == Init /\ [][Next]_vars

(***************************************************************************)
(* The filtered view over richer texts: the collection is any collection   *)
(* of up to two notes over FilterTexts, the query any text of              *)
(* FilterQueries typed in the search input.                                *)
(***************************************************************************)
FilterTexts == { <<>>, <<"a", "B">>, <<"B", "a", "b">>, <<"A", " ", "a">> }

FilterQueries ==
    { <<>>, <<"a">>, <<"A", "b">>, <<"b", "a">>, <<"B", "A", "B">>,
      <<" ">>, <<"b", "b">> }

\* the notes with the id and the times of the clock reading t
FilterNoteSet(t) ==
    { Note(t, title, content, toISOString(t), toISOString(t)) :
        title \in FilterTexts \ {<<>>}, content \in FilterTexts }

\* newest first: the note created at 2 before the note created at 1
FilterCollections ==
    {<<>>} \cup { <<n>> : n \in FilterNoteSet(1) }
           \cup { <<n, m>> : n \in FilterNoteSet(2), m \in FilterNoteSet(1) }

InitFilter ==
    /\ phase = "mounted"
    /\ keydownListener = TRUE
    /\ notes \in FilterCollections
    /\ storage = Stringify(notes)
    /\ now = 2
    /\ currentNote = 0
    /\ searchQuery = <<>>
    /\ showEditor = FALSE
    /\ editorTitle = <<>>
    /\ editorContent = <<>>
    /\ showSaveIndicator = FALSE
    /\ viewMode = "grid"
    /\ isInitialLoad = FALSE
    /\ timers = 0
    /\ alerted = FALSE

NextFilter == \E text \in FilterQueries : SetSearchQuery(text)

SpecFilter == InitFilter /\ [][NextFilter]_vars

(***************************************************************************)
(* The format commands over longer texts: the editor is open, in new-note  *)
(* mode or on the one note of the collection, with a draft content of      *)
(* FormatInputs; one command is applied to it, with any selection.         *)
(***************************************************************************)
TheCatSat == <<"t", "h", "e", " ", "c", "a", "t", " ", "s", "a", "t">>

FormatInputs == { <<>>, <<"a", "b">>, TheCatSat }

InitFormat ==
    /\ phase = "mounted"
    /\ keydownListener = TRUE
    /\ notes = <<Note(1, <<"a">>, <<"a", "b">>, toISOString(1), toISOString(1))>>
    /\ storage = Stringify(notes)
    /\ now = 1
    /\ currentNote \in {0, 1}
    /\ searchQuery = <<>>
    /\ showEditor = TRUE
    /\ editorTitle = <<"a">>
    /\ editorContent \in FormatInputs
    /\ showSaveIndicator = FALSE
    /\ viewMode = "grid"
    /\ isInitialLoad = FALSE
    /\ timers = 0
    /\ alerted = FALSE

NextFormat ==
    \E format \in Formats : \E start, end \in 0..Len(editorContent) :
        editorContent \in FormatInputs /\ ApplyFormat(format, start, end)

SpecFormat == InitFormat /\ [][NextFormat]_vars

(***************************************************************************)
(* The save indicator and its timers: the mutations of the collection      *)
(* with up to MaxPending timers pending at once.  The event loop runs the  *)
(* callback of every timer that was set, hence the fairness of TimerFires. *)
(***************************************************************************)
NextTimers ==
    \/ Mount
    \/ CreateNewNote
    \/ \E i \in 1..MaxNotes : EditNote(i)
    \/ UpdateDraftTitle(<<"a">>)
    \/ SaveNote /\ timers' <= MaxPending
    \/ \E noteId \in NoteIds :
          DeleteNote(noteId, TRUE) /\ timers' <= MaxPending
    \/ TimerFires

SpecTimers == Init /\ [][NextTimers]_vars /\ WF_vars(TimerFires)

(***************************************************************************)
(* Vocabulary of the properties.                                           *)
(***************************************************************************)
\* every character of the text is whitespace (the empty text included)
AllWhitespace(text) == \A i \in DOMAIN text : text[i] \in Whitespace

\* the ids of the notes of a collection
IdsOf(ns) == { ns[i].id : i \in DOMAIN ns }

\* the positions of ns whose note satisfies the test
PositionsWhere(ns, Test(_)) == { i \in DOMAIN ns : Test(ns[i]) }

\* sub is the subsequence of ns made of the notes at the positions keep,
\* in the order of ns
IsSubsequenceAt(sub, ns, keep) ==
    /\ Len(sub) = Cardinality(keep)
    /\ \A i \in keep : sub[Cardinality({j \in keep : j <= i})] = ns[i]

\* the session is closed: editor hidden, no target, empty draft
SessionClosed(shown, target, title, content) ==
    ~shown /\ target = 0 /\ title = <<>> /\ content = <<>>

\* a step of saveNote in create mode with a title that is not blank
CreateStep ==
    SaveNote /\ currentNote = 0 /\ ~AllWhitespace(editorTitle)

\* a step of saveNote in edit mode with a title that is not blank
UpdateStep ==
    SaveNote /\ currentNote # 0 /\ ~AllWhitespace(editorTitle)

(***************************************************************************)
(* C1: every successful create-save adds exactly one note, puts it at the  *)
(* front of the collection with the draft title and content, and leaves    *)
(* the older notes unchanged and in the same order behind it; so n         *)
(* create-saves from the empty collection, with no delete, give n notes,   *)
(* newest first.                                                           *)
(***************************************************************************)
C1_CreatePrepends ==
    [][CreateStep =>
         /\ Len(notes') = Len(notes) + 1
         /\ notes'[1].title = editorTitle
         /\ notes'[1].content = editorContent
         /\ \A i \in DOMAIN notes : notes'[i + 1] = notes[i]]_vars

\* two notes created in this session (a stored note has the id 0), the
\* one created at the later clock reading in front
C1_Witness ==
    /\ Len(notes) = 2
    /\ notes[1].id = 2
    /\ notes[2].id = 1

(***************************************************************************)
(* C2: in every reachable state no two notes of the collection have the    *)
(* same id.                                                                *)
(***************************************************************************)
C2_UniqueIds ==
    \A i, j \in DOMAIN notes : i # j => notes[i].id # notes[j].id

(***************************************************************************)
(* C3: a save whose draft title is empty or whitespace-only, in create     *)
(* mode and in edit mode, shows the alert and changes neither the          *)
(* collection, the stored blob, the target, the draft nor the editor's     *)
(* open state.                                                             *)
(***************************************************************************)
C3_BlankSaveChangesNothing ==
    [][(SaveNote /\ AllWhitespace(editorTitle)) =>
         /\ alerted'
         /\ UNCHANGED <<notes, storage, currentNote, editorTitle,
                        editorContent, showEditor>>]_vars

\* the alert was shown for a whitespace-only title in edit mode
C3_Witness ==
    /\ alerted
    /\ showEditor
    /\ currentNote # 0
    /\ editorTitle = <<" ">>

(***************************************************************************)
(* C4: a confirmed delete(id) leaves no note with that id, keeps every     *)
(* note with another id unchanged and in the same relative order, and      *)
(* when no note has the id (as after a first delete of it) leaves the      *)
(* collection equal to what it was.                                        *)
(***************************************************************************)
C4_DeleteRemovesExactlyId ==
    [][\A noteId \in NoteIds :
         DeleteNote(noteId, TRUE) =>
           /\ noteId \notin IdsOf(notes')
           /\ IsSubsequenceAt(notes', notes,
                 PositionsWhere(notes, LAMBDA n : n.id # noteId))
           /\ (noteId \notin IdsOf(notes) => notes' = notes)]_vars

\* the clock advances only in a successful save, so a note was saved in
\* this session; the collection is empty, so a delete removed it
C4_Witness ==
    /\ phase = "mounted"
    /\ notes = <<>>
    /\ now = 2
    /\ storage = Stringify(<<>>)

(***************************************************************************)
(* C5: a confirmed delete(id) closes the editor session when the target    *)
(* note has that id, and otherwise leaves the session's open state,        *)
(* target and draft unchanged.                                             *)
(***************************************************************************)
C5_DeleteClosesOnlyTarget ==
    [][\A noteId \in NoteIds :
         DeleteNote(noteId, TRUE) =>
           IF currentNote # 0 /\ notes[currentNote].id = noteId
           THEN SessionClosed(showEditor', currentNote', editorTitle',
                              editorContent')
           ELSE /\ UNCHANGED <<showEditor, editorTitle, editorContent>>
                /\ IF currentNote = 0
                   THEN currentNote' = 0
                   ELSE /\ currentNote' \in DOMAIN notes'
                        /\ notes'[currentNote'] = notes[currentNote]]_vars

\* a session is open for editing the stored note, untouched and alone in
\* the collection, after a note saved in this session (the clock advanced)
\* was deleted: the delete of another id left this session as it was
C5_Witness ==
    /\ showEditor
    /\ currentNote = 1
    /\ notes = <<Note(0, <<"B">>, <<>>, toISOString(0), toISOString(0))>>
    /\ now = 2
    /\ editorTitle = <<"a">>

(***************************************************************************)
(* C6: a successful save in edit mode gives the target note the draft      *)
(* title and content and changes nothing else but its updatedAt: its id    *)
(* and createdAt, every other note, the length and the order of the        *)
(* collection are unchanged.                                               *)
(***************************************************************************)
C6_UpdateInPlace ==
    [][UpdateStep =>
         /\ Len(notes') = Len(notes)
         /\ \A i \in DOMAIN notes : i # currentNote => notes'[i] = notes[i]
         /\ notes'[currentNote].id = notes[currentNote].id
         /\ notes'[currentNote].createdAt = notes[currentNote].createdAt
         /\ notes'[currentNote].title = editorTitle
         /\ notes'[currentNote].content = editorContent]_vars

\* the stored note (id 0, created and updated at 0, titled "B") was
\* updated at clock 2 with another title, and is still behind the note
\* created in this session
C6_Witness ==
    /\ Len(notes) = 2
    /\ notes[2].id = 0
    /\ notes[2].createdAt = toISOString(0)
    /\ notes[2].updatedAt = toISOString(2)
    /\ notes[2].title = <<"a">>

(***************************************************************************)
(* C7: once the watcher has run, whenever a user interaction starts the    *)
(* stored blob is the serialization of the collection in memory: every     *)
(* create, every update that changes a field and every confirmed delete    *)
(* is written through before the next interaction.                         *)
(***************************************************************************)
C7_WriteThrough ==
    ~isInitialLoad => storage = Stringify(notes)

\* the stored note (id 0, updated at 0) was updated at clock 2 in this
\* session, and the save indicator of that write is still shown
C7_Witness ==
    /\ ~isInitialLoad
    /\ showSaveIndicator
    /\ Len(notes) = 1
    /\ notes[1].id = 0
    /\ notes[1].updatedAt = toISOString(2)
    /\ notes[1].content = <<"a">>

(***************************************************************************)
(* C8: after the load, when nothing is stored under "notes" or the blob    *)
(* stored there cannot be parsed, the collection is empty and the load     *)
(* has completed: the mount hook ran to its end.                           *)
(***************************************************************************)
C8_LoadRecovers ==
    (phase = "mounted" /\ storage.kind \in {"absent", "unparseable"}) =>
        (notes = <<>> /\ keydownListener)

(***************************************************************************)
(* C9: for a query that is not empty, the filtered view is exactly the     *)
(* subsequence of the collection made of the notes whose title or content, *)
(* in lower case, contains the query in lower case at some position.       *)
(***************************************************************************)
ContainsAt(text, q, off) ==
    /\ off + Len(q) <= Len(text)
    /\ SubSeq(text, off + 1, off + Len(q)) = q

ContainsIgnoringCase(text, q) ==
    \E off \in 0..Len(text) :
        ContainsAt(toLowerCase(text), toLowerCase(q), off)

C9_FilterExact ==
    searchQuery # <<>> =>
        IsSubsequenceAt(filteredNotes, notes,
            PositionsWhere(notes,
                LAMBDA n : \/ ContainsIgnoringCase(n.title, searchQuery)
                           \/ ContainsIgnoringCase(n.content, searchQuery)))

\* the query "Ab" selects the second note, by its content "Bab" only, and
\* leaves out the first
C9_Witness ==
    /\ searchQuery = <<"A", "b">>
    /\ Len(notes) = 2
    /\ notes[1].title = <<"A", " ", "a">>
    /\ notes[1].content = <<>>
    /\ notes[2].title = <<"A", " ", "a">>
    /\ notes[2].content = <<"B", "a", "b">>
    /\ filteredNotes = <<notes[2]>>

(***************************************************************************)
(* C10: when the search query is empty the filtered view is the            *)
(* collection itself.                                                      *)
(***************************************************************************)
C10_EmptyQueryShowsAll ==
    searchQuery = <<>> => filteredNotes = notes

\* the list is shown with an empty query over two notes, the one created
\* in this session in front of the stored one
C10_Witness ==
    /\ searchQuery = <<>>
    /\ Len(notes) = 2
    /\ notes[1].title = <<"a">>
    /\ notes[2].title = <<"B">>
    /\ ~showEditor

C12_SaveCommitsAndCloses ==
    [][(SaveNote /\ ~AllWhitespace(editorTitle)) =>
         /\ SessionClosed(showEditor', currentNote', editorTitle',
                          editorContent')
         /\ ~alerted'
         /\ IF currentNote = 0
            THEN /\ Len(notes') = Len(notes) + 1
                 /\ notes'[1].title = editorTitle
                 /\ notes'[1].content = editorContent
            ELSE /\ Len(notes') = Len(notes)
                 /\ notes'[currentNote].title = editorTitle
                 /\ notes'[currentNote].content = editorContent]_vars

\* the session is closed and the stored note (titled "B", empty) carries
\* the title and the content of a draft, behind a note created with the
\* title and the content of another draft
C12_Witness ==
    /\ SessionClosed(showEditor, currentNote, editorTitle, editorContent)
    /\ Len(notes) = 2
    /\ notes[1].id = 2
    /\ notes[1].title = <<"a">>
    /\ notes[1].content = <<"#", " ">>
    /\ notes[2].id = 0
    /\ notes[2].title = <<"a">>
    /\ notes[2].content = <<"a">>

(***************************************************************************)
(* C13: opening a session for editing, changing the draft title, changing  *)
(* the draft content, applying a format command and closing the editor     *)
(* change neither the collection nor the stored blob, and closing leaves   *)
(* no draft; so an edit session that is cancelled leaves every note and    *)
(* the blob as they were before it was opened.                             *)
(***************************************************************************)
DraftStep ==
    \/ \E i \in 1..MaxNotes : EditNote(i)
    \/ \E text \in TitleInputs : UpdateDraftTitle(text)
    \/ \E text \in ContentInputs : UpdateDraftContent(text)
    \/ \E format \in Formats : \E start, end \in 0..MaxContentLen :
          ApplyFormat(format, start, end)
    \/ CloseEditor

C13_DraftIsIndependent ==
    [][DraftStep =>
         /\ UNCHANGED <<notes, storage>>
         /\ CloseEditor =>
              SessionClosed(showEditor', currentNote', editorTitle',
                            editorContent')]_vars

\* a session open on the stored note, whose draft title and content both
\* differ from the title and the content of the note
C13_Witness ==
    /\ showEditor
    /\ currentNote = 1
    /\ notes = <<Note(0, <<"B">>, <<>>, toISOString(0), toISOString(0))>>
    /\ editorTitle = <<" ">>
    /\ editorContent = <<"*", "*">>
    /\ storage = Stringify(notes)

(***************************************************************************)
(* C14: opening a session for editing a note sets the draft to the title   *)
(* and the content of that note and makes it the target; opening one for   *)
(* creation empties the draft and sets no target; both show the editor     *)
(* and leave the collection unchanged.                                     *)
(***************************************************************************)
C14_OpenInitialisesDraft ==
    [][/\ CreateNewNote =>
            /\ showEditor' /\ currentNote' = 0
            /\ editorTitle' = <<>> /\ editorContent' = <<>>
            /\ notes' = notes
       /\ \A i \in 1..MaxNotes :
            EditNote(i) =>
              /\ showEditor' /\ currentNote' = i
              /\ editorTitle' = notes[i].title
              /\ editorContent' = notes[i].content
              /\ notes' = notes]_vars

\* a session open on the second of two notes with the title and the
\* content that an update gave to that note
C14_Witness ==
    /\ showEditor
    /\ currentNote = 2
    /\ Len(notes) = 2
    /\ notes[2].id = 0
    /\ notes[2].content = <<"a">>
    /\ editorTitle = notes[2].title
    /\ editorContent = notes[2].content
    /\ notes[1].content # notes[2].content

(***************************************************************************)
(* C15: opening a session while one is open replaces the target and both   *)
(* draft fields, so that nothing of the earlier draft is left, and a save  *)
(* writes to no note but the target of the session that is open: in edit   *)
(* mode every other note is unchanged, in create mode every note is.       *)
(***************************************************************************)
C15_OneSession ==
    [][/\ (showEditor /\ CreateNewNote) =>
            /\ currentNote' = 0
            /\ editorTitle' = <<>> /\ editorContent' = <<>>
       /\ \A i \in 1..MaxNotes :
            (showEditor /\ EditNote(i)) =>
              /\ currentNote' = i
              /\ editorTitle' = notes[i].title
              /\ editorContent' = notes[i].content
       /\ (SaveNote /\ currentNote # 0) =>
            \A j \in DOMAIN notes : j # currentNote => notes'[j] = notes[j]
       /\ (SaveNote /\ currentNote = 0) =>
            \A j \in DOMAIN notes :
                notes'[j + Len(notes') - Len(notes)] = notes[j]]_vars

\* the first note has the title "a" and the session is open on the second
\* with a draft typed over that of the note, so an opening on the first
\* would replace the target and the draft
C15_Witness ==
    /\ showEditor
    /\ currentNote = 2
    /\ Len(notes) = 2
    /\ notes[1].title = <<"a">>
    /\ notes[2].title = <<"B">>
    /\ editorTitle = <<" ">>
    /\ editorContent = <<"a">>

(***************************************************************************)
(* C16: the editor goes from hidden to shown only in a step of             *)
(* createNewNote or editNote, and from shown to hidden only in a save      *)
(* with a title that is not blank, in closeEditor, or in a confirmed       *)
(* delete of the id of the target; no other step changes showEditor.       *)
(***************************************************************************)
C16_OpenCloseOnlyBy ==
    [][/\ (~showEditor /\ showEditor') =>
            (CreateNewNote \/ \E i \in 1..MaxNotes : EditNote(i))
       /\ (showEditor /\ ~showEditor') =>
            \/ SaveNote /\ ~AllWhitespace(editorTitle)
            \/ CloseEditor
            \/ \E noteId \in NoteIds :
                 /\ DeleteNote(noteId, TRUE)
                 /\ currentNote # 0
                 /\ notes[currentNote].id = noteId]_vars

\* the editor is still shown after a save in create mode that the alert
\* rejected, over an empty collection
C16_Witness ==
    /\ showEditor
    /\ alerted
    /\ currentNote = 0
    /\ editorTitle = <<>>
    /\ editorContent = <<"a">>
    /\ notes = <<>>

(***************************************************************************)
(* C17: in every reachable state in which the session is open for editing  *)
(* the target is a note of the collection.                                 *)
(***************************************************************************)
C17_TargetInCollection ==
    (showEditor /\ currentNote # 0) => currentNote \in DOMAIN notes

\* the session is open on a note created at clock 1 and never updated,
\* alone in the collection, and the clock was read at 2 by the save of
\* another note, which a delete has removed since
C17_Witness ==
    /\ showEditor
    /\ currentNote = 1
    /\ notes = <<Note(1, <<"a">>, <<>>, toISOString(1), toISOString(1))>>
    /\ now = 2

(***************************************************************************)
(* C18: the note that a create-save has just added has createdAt equal to  *)
(* updatedAt.                                                              *)
(***************************************************************************)
C18_CreatedAtIsUpdatedAt ==
    [][CreateStep => notes'[1].createdAt = notes'[1].updatedAt]_vars

(***************************************************************************)
(* C19: in every reachable state every note of the collection has a title  *)
(* that is not empty after trimming: it has a character that is not        *)
(* whitespace.                                                             *)
(***************************************************************************)
C19_TitlesNotBlank ==
    \A i \in DOMAIN notes : ~AllWhitespace(notes[i].title)

\* the alert has rejected a create-save with a whitespace-only title, the
\* collection holding two notes
C19_Witness ==
    /\ alerted
    /\ showEditor
    /\ currentNote = 0
    /\ editorTitle = <<" ">>
    /\ Len(notes) = 2

(***************************************************************************)
(* C20: the bold format applied to the draft content "the cat sat" with    *)
(* the selection 4..7, which covers "cat", yields "the **cat** sat".       *)
(***************************************************************************)
TheBoldCatSat ==
    <<"t", "h", "e", " ", "*", "*", "c", "a", "t", "*", "*", " ",
      "s", "a", "t">>

C20_BoldCat ==
    [][(editorContent = TheCatSat /\ ApplyFormat("bold", 4, 7)) =>
         editorContent' = TheBoldCatSat]_vars

C20_Witness ==
    editorContent = TheBoldCatSat

\* C20 as stated: with the selection 2..5
C20_BoldAtTwoToFive ==
    [][(editorContent = TheCatSat /\ ApplyFormat("bold", 2, 5)) =>
         editorContent' = TheBoldCatSat]_vars

(***************************************************************************)
(* C21: for every draft content, every selection 0 <= start <= end <=      *)
(* length and each format, applyFormat yields the text before the          *)
(* selection, the marked selection and the text after it, where bold       *)
(* wraps in "**", italic in "*", heading prefixes "# " and bullet          *)
(* prefixes the bullet character U+2022 and a blank; the title, the        *)
(* target and the collection are unchanged.                                *)
(***************************************************************************)
Bullet == <<"U+2022", " ">>

Marked(format, selection) ==
    CASE format = "bold" -> <<"*", "*">> \o selection \o <<"*", "*">>
      [] format = "italic" -> <<"*">> \o selection \o <<"*">>
      [] format = "heading" -> <<"#", " ">> \o selection
      [] format = "bullet" -> Bullet \o selection

C21_FormatMarksSelection ==
    [][\A format \in Formats : \A start, end \in 0..Len(editorContent) :
         ApplyFormat(format, start, end) =>
           /\ editorContent' =
                SubSeq(editorContent, 1, start)
                  \o Marked(format, SubSeq(editorContent, start + 1, end))
                  \o SubSeq(editorContent, end + 1, Len(editorContent))
           /\ UNCHANGED <<editorTitle, currentNote, notes>>]_vars

(***************************************************************************)
(* C22: every step of create, update or delete that changes the            *)
(* collection of the mounted component shows the save indicator.           *)
(***************************************************************************)
C22_MutationShowsIndicator ==
    [][(phase = "mounted" /\ notes' # notes) => showSaveIndicator']_vars

(***************************************************************************)
(* C23: createNewNote, editNote, the title and content inputs,             *)
(* applyFormat, closeEditor, a save with a blank title, a declined         *)
(* delete, the search input and toggleViewMode leave the stored blob       *)
(* unchanged.                                                              *)
(***************************************************************************)
NotMutating ==
    \/ CreateNewNote
    \/ \E i \in 1..MaxNotes : EditNote(i)
    \/ \E text \in TitleInputs : UpdateDraftTitle(text)
    \/ \E text \in ContentInputs : UpdateDraftContent(text)
    \/ \E format \in Formats : \E start, end \in 0..MaxContentLen :
          ApplyFormat(format, start, end)
    \/ CloseEditor
    \/ SaveNote /\ AllWhitespace(editorTitle)
    \/ \E noteId \in NoteIds : DeleteNote(noteId, FALSE)
    \/ \E text \in QueryInputs : SetSearchQuery(text)
    \/ ToggleViewMode

C23_NoWriteWithoutMutation ==
    [][NotMutating => storage' = storage]_vars

\* nothing is stored yet although the view was toggled and the alert has
\* rejected a save with a whitespace-only title
C23_Witness ==
    /\ phase = "mounted"
    /\ storage = Absent
    /\ viewMode = "list"
    /\ alerted
    /\ editorTitle = <<" ">>

(***************************************************************************)
(* C24: Alt+N opens a session for a new note when the editor is hidden     *)
(* and changes nothing when it is shown; Ctrl+S and Cmd+S save, and        *)
(* Escape closes, when the editor is shown, and change nothing when it is  *)
(* hidden.                                                                 *)
(***************************************************************************)
\* the state of the component is as it was
ComponentUnchanged ==
    UNCHANGED <<phase, keydownListener, storage, now, notes, currentNote,
                searchQuery, showEditor, editorTitle, editorContent,
                showSaveIndicator, viewMode, isInitialLoad, timers>>

C24_ShortcutsGuarded ==
    [][\A e \in KeyEvents : KeyDown(e) =>
         /\ (e.altKey /\ e.key = "n") =>
              IF showEditor
              THEN ComponentUnchanged
              ELSE /\ showEditor'
                   /\ currentNote' = 0
                   /\ editorTitle' = <<>>
                   /\ editorContent' = <<>>
                   /\ UNCHANGED <<notes, storage>>
         /\ ((e.ctrlKey \/ e.metaKey) /\ e.key = "s") =>
              IF showEditor THEN SaveNote ELSE ComponentUnchanged
         /\ (e.key = "Escape") =>
              IF showEditor
              THEN /\ SessionClosed(showEditor', currentNote', editorTitle',
                                    editorContent')
                   /\ UNCHANGED <<notes, storage>>
              ELSE ComponentUnchanged]_vars

\* the listener is registered and the editor is shown with a draft for a
\* new note, over the stored collection
C24_Witness ==
    /\ keydownListener
    /\ showEditor
    /\ currentNote = 0
    /\ editorTitle = <<"a">>
    /\ editorContent = <<"a">>
    /\ Len(notes) = 1
    /\ notes[1].id = 0

(***************************************************************************)
(* C25: a delete whose confirmation is declined leaves the collection,     *)
(* the stored blob, the editor's visibility, the target and the draft      *)
(* unchanged.                                                              *)
(***************************************************************************)
C25_DeclinedDeleteChangesNothing ==
    [][\A noteId \in NoteIds : DeleteNote(noteId, FALSE) =>
         UNCHANGED <<notes, storage, showEditor, currentNote, editorTitle,
                     editorContent>>]_vars

\* a session open on the second of two notes with a draft that differs
\* from it, the indicator showing
C25_Witness ==
    /\ showEditor
    /\ currentNote = 2
    /\ Len(notes) = 2
    /\ editorTitle = <<>>
    /\ showSaveIndicator
    /\ ~alerted

(***************************************************************************)
(* C26: whenever the save indicator is shown it is hidden again later,     *)
(* and it goes from hidden to shown only in a save or a confirmed delete,  *)
(* so it stays hidden once the mutations stop, whatever the number of      *)
(* pending timers.                                                         *)
(***************************************************************************)
C26_IndicatorHides ==
    /\ showSaveIndicator ~> ~showSaveIndicator
    /\ [][(~showSaveIndicator /\ showSaveIndicator') =>
            (SaveNote \/ \E noteId \in NoteIds : DeleteNote(noteId, TRUE))]_vars

\* the indicator is shown with the timers of two mutations pending
C26_Witness ==
    showSaveIndicator /\ timers = 2

====
